---- MODULE Spec2Model ----
(***************************************************************************)
(* BlockStream backend: the experiment run-loop (backend/main.py), the     *)
(* ExperimentController (backend/controller.py) and the simulated EEG      *)
(* recorder (backend/recorder.py).                                         *)
(*                                                                         *)
(* Flask serves every request on its own thread (app.run(threaded=True)),  *)
(* so the start, stop and status handlers interleave with each other and   *)
(* with the background threads that run_experiment_blocks executes on.     *)
(* One step of the model performs at most one write to the shared          *)
(* controller object, with the reads that feed it; a time.sleep belongs    *)
(* to the step that precedes it.                                           *)
(*                                                                         *)
(* Spec and SpecStatus run the controller under its requests; SpecRecorder *)
(* drives either recorder, and SpecConfig the configuration's validate and *)
(* the block catalogue, by direct calls.                                   *)
(***************************************************************************)
EXTENDS Integers, Sequences, FiniteSets, TLC

\* ---------------------------------------------------------------- bounds
\* Largest num_loops a configuration of the model carries.
MaxLoops == 2
\* Number of threading.Thread objects the start handler may create.
MaxStarts == 2
\* Number of background threads the interpreter has given the CPU so far: a
\* thread created after these has been started but has not yet run a step.
MaxScheduled == 1
\* Number of distinct session directories create_session_directory names.
MaxSessions == 1

\* Number of direct calls made on a recorder or a configuration.
MaxCalls == 4
\* Number of /api/process-audio requests.
MaxRequests == 3

\* ------------------------------------------------------------- constants
None == "None"

\* controller.get_blocks_for_loop: the fixed order of the six block types.
BlockTypes == <<"A1", "A2", "B1", "B2", "Lag", "Intermission">>

ThreadIds == 1..MaxStarts

\* BlockDurations with every duration 1 second, and with a negative B1, which
\* time.sleep rejects (ValueError).
GoodDurations == [b \in {BlockTypes[i] : i \in 1..Len(BlockTypes)} |-> 1]
BadB1Durations == [GoodDurations EXCEPT !["B1"] = -1]

\* DirectoryConfig as load_default_config fills it; "" is a missing path.
DirectoryNames == <<"base", "input", "output", "temp">>
DefaultDirectories ==
    [base |-> "experiment_data", input |-> "experiment_data/input",
     output |-> "experiment_data/output", temp |-> "experiment_data/temp"]

\* ExperimentConfig as save_config builds it from the request's JSON: nothing
\* is validated, so numLoops may be any JSON value (num_loops_is_int FALSE
\* stands for a string, which range() and the comparison in validate both
\* reject with TypeError) and a duration may be negative.
Configs ==
    [experiment_type : {"full"},
     num_loops : 1..MaxLoops, num_loops_is_int : {TRUE},
     require_brainvision : BOOLEAN, block_durations : {GoodDurations},
     sample_rate : {44100}, format : {"16bit"},
     directories : {DefaultDirectories}]
    \cup
    {[experiment_type |-> "full", num_loops |-> 1, num_loops_is_int |-> FALSE,
      require_brainvision |-> FALSE, block_durations |-> GoodDurations,
      sample_rate |-> 44100, format |-> "16bit",
      directories |-> DefaultDirectories],
     [experiment_type |-> "full", num_loops |-> 1, num_loops_is_int |-> TRUE,
      require_brainvision |-> FALSE, block_durations |-> BadB1Durations,
      sample_rate |-> 44100, format |-> "16bit",
      directories |-> DefaultDirectories]}

\* The first element of the sequence names that is in the set bad.
FirstBad(names, bad) ==
    names[CHOOSE i \in 1..Len(names) :
            /\ names[i] \in bad
            /\ \A j \in 1..(i - 1) : names[j] \notin bad]

\* The reasons validate returns.
LoopBoundReason == "Number of loops must be between 1 and 20"
Failed(reason) == [ok |-> FALSE, reason |-> reason]

\* ExperimentConfig.validate with the upper loop bound off by one.
validate_to_21(c) ==
    LET BadDuration == {name \in DOMAIN c.block_durations :
                          ~(/\ 0 <= c.block_durations[name]
                            /\ c.block_durations[name] <= 120)}
        Missing == {name \in DOMAIN c.directories : c.directories[name] = ""}
    IN
    IF c.experiment_type \notin {"full", "partial", "simple"}
      THEN Failed("Invalid experiment type")
    ELSE IF ~c.num_loops_is_int
      THEN Failed("Validation error")
    ELSE IF ~(1 <= c.num_loops /\ c.num_loops <= 21)
      THEN Failed(LoopBoundReason)
    ELSE IF BadDuration # {}
      THEN Failed(<<"Invalid duration for block",
                    FirstBad(BlockTypes, BadDuration)>>)
    ELSE IF c.sample_rate \notin {44100, 48000, 96000}
      THEN Failed("Invalid sample rate")
    ELSE IF c.format \notin {"16bit", "24bit", "32bit"}
      THEN Failed("Invalid audio format")
    ELSE IF Missing # {}
      THEN Failed(<<"Missing directory path",
                    FirstBad(DirectoryNames, Missing)>>)
    ELSE [ok |-> TRUE, reason |-> None]

\* ExperimentConfig.validate: the checks in the order of the code, each
\* returning (False, reason) at the first failure; an exception raised by a
\* check is caught and returned as a validation error.
validate(c) ==
    LET BadDuration == {name \in DOMAIN c.block_durations :
                          ~(/\ 0 <= c.block_durations[name]
                            /\ c.block_durations[name] <= 120)}
        Missing == {name \in DOMAIN c.directories : c.directories[name] = ""}
    IN
    IF c.experiment_type \notin {"full", "partial", "simple"}
      THEN Failed("Invalid experiment type")
    ELSE IF ~c.num_loops_is_int
      THEN Failed("Validation error")
    ELSE IF ~(1 <= c.num_loops /\ c.num_loops <= 20)
      THEN Failed(LoopBoundReason)
    ELSE IF BadDuration # {}
      THEN Failed(<<"Invalid duration for block",
                    FirstBad(BlockTypes, BadDuration)>>)
    ELSE IF c.sample_rate \notin {44100, 48000, 96000}
      THEN Failed("Invalid sample rate")
    ELSE IF c.format \notin {"16bit", "24bit", "32bit"}
      THEN Failed("Invalid audio format")
    ELSE IF Missing # {}
      THEN Failed(<<"Missing directory path",
                    FirstBad(DirectoryNames, Missing)>>)
    ELSE [ok |-> TRUE, reason |-> None]

\* controller.load_default_config, with num_loops within the model's bound.
DefaultConfig ==
    [experiment_type |-> "full", num_loops |-> MaxLoops,
     num_loops_is_int |-> TRUE, require_brainvision |-> TRUE,
     block_durations |-> GoodDurations, sample_rate |-> 44100,
     format |-> "16bit", directories |-> DefaultDirectories]

VARIABLES
    is_running,      \* controller.is_running
    current_block,   \* controller.current_block
    current_loop,    \* controller.current_loop
    audio_files,     \* controller.audio_files
    config,          \* controller.config
    session_dir,     \* controller.session_dir: 0 is None, n the n-th directory
    block_thread,    \* controller.block_thread: 0 is None, else a thread id
    eeg_recorder,    \* SimulatedEEGRecorder: is_recording, recording_file
    threads,         \* the threads running run_experiment_blocks
    start_req,       \* the request start_experiment is serving
    stop_req,        \* the request stop_experiment is serving
    status_req,      \* the request get_status is serving
    held,            \* history: the (is_running, current_block, current_loop)
                     \* triples held since the pending status request arrived
                     \* that agree with what it has read so far
    calls,           \* history: the direct calls made on the recorder and the
                     \* configuration (SpecRecorder, SpecConfig) and their results
    is_processing_audio,  \* controller.is_processing_audio
    process_req,     \* the /api/process-audio requests: where each one is
    processing_thread \* the thread each request started, if it started one

vars == <<is_running, current_block, current_loop, audio_files, config,
          session_dir, block_thread, eeg_recorder, threads,
          start_req, stop_req, status_req, held, calls,
          is_processing_audio, process_req, processing_thread>>

processing_vars == <<is_processing_audio, process_req, processing_thread>>

controller_vars == <<is_running, current_block, current_loop, audio_files,
                     config, session_dir, block_thread, eeg_recorder>>

\* ------------------------------------------------------------------ Init
Requests == 1..MaxRequests

\* controller.py 47, and no request made or thread started yet. A request is
\* "new" until it arrives, "checked" once it has found the flag False,
\* then "accepted"; or "rejected". Its thread is "unborn", "started" (its
\* start() has been called), "running" (it has set the flag) or "done".
InitProcessing ==
    /\ is_processing_audio = FALSE
    /\ process_req = [r \in Requests |-> "new"]
    /\ processing_thread = [r \in Requests |-> "unborn"]

\* A thread of run_experiment_blocks: its position and locals (num_loops,
\* loop_index, blocks, block_index), and two history fields the properties
\* read: exit, the way the procedure ended, and natural, which stays TRUE
\* as long as no block failed, no cleared flag was seen and no stop request
\* arrived during the run; failed, which becomes TRUE when a block returns
\* failure or the procedure catches an exception; completed, the number of
\* run_block calls that returned success to this thread.
NewThread ==
    [pc |-> "unborn", num_loops |-> 0, loop_index |-> 0, blocks |-> <<>>,
     block_index |-> 0, natural |-> TRUE, exit |-> "none", failed |-> FALSE,
     completed |-> 0]

\* The handlers' positions and locals. History fields: during_run (the start
\* request arrived while a run was in progress), returned (what the last
\* start request returned, until the next start or stop request),
\* alive_at_call (the threads alive when the stop request arrived),
\* idle_at_call (the stop request arrived at an idle controller: is_running
\* false, no thread alive, no start request being served).
IdleStart == [pc |-> "idle", during_run |-> FALSE, returned |-> "none"]
IdleStop == [pc |-> "idle", joining |-> 0, alive_at_call |-> {},
             idle_at_call |-> FALSE, returned |-> None]
IdleStatus == [pc |-> "idle", isRunning |-> FALSE, currentBlock |-> None,
               after_start |-> FALSE, after_failure |-> FALSE]

\* SimulatedEEGRecorder.__init__ (recording_file 0 is None)
SimulatedEEGRecorder ==
    [kind |-> "simulated", is_recording |-> FALSE, recording_file |-> 0,
     markers |-> <<>>]

\* ExperimentController.__init__: _initialize_eeg_recorder picks the simulated
\* recorder wherever win32com is not available.
Init ==
    /\ is_running = FALSE
    /\ current_block = None
    /\ current_loop = 0
    /\ audio_files = <<>>
    /\ config = DefaultConfig
    /\ session_dir = 0
    /\ block_thread = 0
    /\ eeg_recorder = SimulatedEEGRecorder
    /\ threads = [t \in ThreadIds |-> NewThread]
    /\ start_req = IdleStart
    /\ stop_req = IdleStop
    /\ status_req = IdleStatus
    /\ held = {}
    /\ calls = <<>>
    /\ InitProcessing

Alive(t) == threads[t].pc \notin {"unborn", "done"}
AliveThreads == {t \in ThreadIds : Alive(t)}
\* The background threads that have been given the CPU.
ScheduledThreads == {t \in ThreadIds : t <= MaxScheduled}

\* The history every step of the controller keeps. held collects the
\* triples the three fields held together at the instants since the pending
\* status request arrived, as far as they agree with what the request has
\* read so far (isRunning, then currentBlock); no direct call is made.
Observed ==
    /\ held' = IF status_req'.pc = "idle"
                 THEN {}
                 ELSE {x \in held \cup {<<is_running', current_block',
                                           current_loop'>>} :
                         /\ x[1] = status_req'.isRunning
                         /\ status_req'.pc = "read_loop"
                              => x[2] = status_req'.currentBlock}
    /\ UNCHANGED calls
    /\ UNCHANGED processing_vars

\* ------------------------------------------------- recorder (simulated)
\* SimulatedEEGRecorder.start_recording
SimStartRecording(rec, filename) ==
    [rec EXCEPT !.is_recording = TRUE, !.recording_file = filename]

\* SimulatedEEGRecorder.stop_recording
SimStopRecording(rec) ==
    [rec EXCEPT !.is_recording = FALSE, !.recording_file = 0]

\* ---------------------------------------------------------- controller
\* ExperimentController.start_recording: os.path.join(self.session_dir, ..)
\* raises TypeError when session_dir is None, and the except clause turns
\* that into {"success": False}; the recorder's own result is dropped.
StartRecordingSucceeds == session_dir # 0

\* get_blocks_for_loop generating the blocks from experiment_type: a
\* 'simple' experiment gets the two audio blocks only.
get_blocks_by_type(loop_number) ==
    [i \in 1..(IF config.experiment_type = "simple"
                 THEN 2 ELSE Len(BlockTypes)) |->
        [type |-> BlockTypes[i],
         duration |-> config.block_durations[BlockTypes[i]]]]

\* ExperimentController.get_blocks_for_loop
get_blocks_for_loop(loop_number) ==
    [i \in 1..Len(BlockTypes) |->
        [type |-> BlockTypes[i],
         duration |-> config.block_durations[BlockTypes[i]]]]

\* /api/save-config -> ExperimentController.save_config
SaveConfig(c) ==
    /\ c # config
    /\ config' = c
    /\ UNCHANGED <<is_running, current_block, current_loop, audio_files,
                   session_dir, block_thread, eeg_recorder, threads,
                   start_req, stop_req, status_req>>
    /\ Observed

\* /api/initialize: create_session_directory names a new directory (the
\* simulated recorder's initialize changes nothing).
Initialize ==
    /\ session_dir < MaxSessions
    /\ session_dir' = session_dir + 1
    /\ UNCHANGED <<is_running, current_block, current_loop, audio_files,
                   config, block_thread, eeg_recorder, threads,
                   start_req, stop_req, status_req>>
    /\ Observed

\* ------------------------------------------------------ start_experiment
NextThread == 1 + Cardinality({t \in ThreadIds : threads[t].pc # "unborn"})

\* main.py 85-102: the request arrives, with or without a 'config' key.
StartRequest(with_config, c) ==
    /\ start_req.pc = "idle"
    /\ NextThread <= MaxStarts
    /\ config' = IF with_config THEN c ELSE config
    /\ start_req' = [pc |-> "set_running",
                     during_run |-> is_running /\ AliveThreads # {},
                     returned |-> "none"]
    /\ UNCHANGED <<is_running, current_block, current_loop, audio_files,
                   session_dir, block_thread, eeg_recorder, threads,
                   stop_req, status_req>>
    /\ Observed

\* main.py 104
StartSetRunning ==
    /\ start_req.pc = "set_running"
    /\ is_running' = TRUE
    /\ start_req' = [start_req EXCEPT !.pc = "set_loop"]
    /\ UNCHANGED <<current_block, current_loop, audio_files, config,
                   session_dir, block_thread, eeg_recorder, threads,
                   stop_req, status_req>>
    /\ Observed

\* start_experiment resetting the run state to its quiescent values.
StartSetLoopClearing ==
    /\ start_req.pc = "set_loop"
    /\ current_loop' = 0
    /\ audio_files' = <<>>
    /\ start_req' = [start_req EXCEPT !.pc = "record"]
    /\ UNCHANGED <<is_running, current_block, config,
                   session_dir, block_thread, eeg_recorder, threads,
                   stop_req, status_req>>
    /\ Observed

\* main.py 105
StartSetLoop ==
    /\ start_req.pc = "set_loop"
    /\ current_loop' = 0
    /\ start_req' = [start_req EXCEPT !.pc = "record"]
    /\ UNCHANGED <<is_running, current_block, audio_files, config,
                   session_dir, block_thread, eeg_recorder, threads,
                   stop_req, status_req>>
    /\ Observed

\* main.py 107-113
StartRecording ==
    /\ start_req.pc = "record"
    /\ IF ~config.require_brainvision
         THEN /\ start_req' = [start_req EXCEPT !.pc = "spawn"]
              /\ UNCHANGED eeg_recorder
         ELSE IF StartRecordingSucceeds
         THEN /\ eeg_recorder' = SimStartRecording(eeg_recorder, session_dir)
              /\ start_req' = [start_req EXCEPT !.pc = "spawn"]
         ELSE /\ start_req' = [start_req EXCEPT !.pc = "idle",
                                                !.returned = "record_failed"]
              /\ UNCHANGED eeg_recorder
    /\ UNCHANGED <<is_running, current_block, current_loop, audio_files,
                   config, session_dir, block_thread, threads,
                   stop_req, status_req>>
    /\ Observed

\* main.py 115-120
StartSpawn ==
    /\ start_req.pc = "spawn"
    /\ block_thread' = NextThread
    /\ threads' = [threads EXCEPT ![NextThread].pc = "begin"]
    /\ start_req' = [start_req EXCEPT !.pc = "idle", !.returned = "ok"]
    /\ UNCHANGED <<is_running, current_block, current_loop, audio_files,
                   config, session_dir, eeg_recorder, stop_req, status_req>>
    /\ Observed

\* ------------------------------------------------------- stop_experiment
\* No run is in progress and none is being started.
IdleController ==
    /\ ~is_running
    /\ AliveThreads = {}
    /\ start_req.pc = "idle"

\* ExperimentController.stop_recording: the recorder's result is dropped
\* and success is returned unless the recorder raises, which neither
\* recorder does.
StopRecordingResult == [success |-> TRUE, error |-> None]

\* stop_experiment resetting the loop counter along with the flag.
StopSetFlagResets ==
    /\ stop_req.pc = "idle"
    /\ is_running' = FALSE
    /\ current_loop' = 0
    /\ stop_req' = [pc |-> "read_thread", joining |-> 0,
                    alive_at_call |-> AliveThreads,
                    idle_at_call |-> IdleController, returned |-> None]
    /\ threads' = [t \in ThreadIds |->
                     IF Alive(t) THEN [threads[t] EXCEPT !.natural = FALSE]
                                 ELSE threads[t]]
    /\ start_req' = [start_req EXCEPT !.returned = "none"]
    /\ UNCHANGED <<current_block, audio_files, config,
                   session_dir, block_thread, eeg_recorder, status_req>>
    /\ Observed

\* main.py 133-134
StopSetFlag ==
    /\ stop_req.pc = "idle"
    /\ is_running' = FALSE
    /\ stop_req' = [pc |-> "read_thread", joining |-> 0,
                    alive_at_call |-> AliveThreads,
                    idle_at_call |-> IdleController, returned |-> None]
    /\ threads' = [t \in ThreadIds |->
                     IF Alive(t) THEN [threads[t] EXCEPT !.natural = FALSE]
                                 ELSE threads[t]]
    /\ start_req' = [start_req EXCEPT !.returned = "none"]
    /\ UNCHANGED <<current_block, current_loop, audio_files, config,
                   session_dir, block_thread, eeg_recorder, status_req>>
    /\ Observed

\* main.py 135-136: the thread object join() is called on
StopReadThread ==
    /\ stop_req.pc = "read_thread"
    /\ stop_req' = [stop_req EXCEPT !.pc = "join", !.joining = block_thread]
    /\ UNCHANGED <<controller_vars, threads, start_req, status_req>>
    /\ Observed

\* main.py 136: join() returns once that thread has exited
StopJoin ==
    /\ stop_req.pc = "join"
    /\ IF stop_req.joining = 0 THEN TRUE
                               ELSE threads[stop_req.joining].pc = "done"
    /\ stop_req' = [stop_req EXCEPT !.pc = "stop_recording"]
    /\ UNCHANGED <<controller_vars, threads, start_req, status_req>>
    /\ Observed

\* main.py 137-139 -> controller.stop_recording
StopRecording ==
    /\ stop_req.pc = "stop_recording"
    /\ eeg_recorder' = SimStopRecording(eeg_recorder)
    /\ stop_req' = [IdleStop EXCEPT !.returned = StopRecordingResult]
    /\ UNCHANGED <<is_running, current_block, current_loop, audio_files,
                   config, session_dir, block_thread, threads,
                   start_req, status_req>>
    /\ Observed

\* ------------------------------------------------------------ get_status
\* main.py 147-152: the request arrives and isRunning is read; after_start
\* records whether it arrives after a start with a valid configuration has
\* returned success, with no start or stop request since; after_failure
\* whether it arrives after a run has ended in failure.
StatusReadRunning ==
    /\ status_req.pc = "idle"
    /\ status_req' = [pc |-> "read_block", isRunning |-> is_running,
                      currentBlock |-> None,
                      after_start |-> /\ start_req.pc = "idle"
                                      /\ start_req.returned = "ok"
                                      /\ validate(config).ok,
                      after_failure |-> \E t \in ThreadIds :
                                          /\ threads[t].pc = "done"
                                          /\ threads[t].failed]
    /\ UNCHANGED <<controller_vars, threads, start_req, stop_req>>
    /\ Observed

\* main.py 153
StatusReadBlock ==
    /\ status_req.pc = "read_block"
    /\ status_req' = [status_req EXCEPT !.pc = "read_loop",
                                        !.currentBlock = current_block]
    /\ UNCHANGED <<controller_vars, threads, start_req, stop_req>>
    /\ Observed

\* main.py 151-158: the response, as the step that sends it builds it.
StatusResponse ==
    [isRunning |-> status_req.isRunning,
     currentBlock |-> status_req.currentBlock,
     currentLoop |-> current_loop,
     error |-> None]

\* main.py 154-158: currentLoop is read and the response is sent
StatusReadLoop ==
    /\ status_req.pc = "read_loop"
    /\ status_req' = IdleStatus
    /\ UNCHANGED <<controller_vars, threads, start_req, stop_req>>
    /\ Observed

\* ------------------------------------------------- run_experiment_blocks
\* The position after the inner for loop is left (break, or blocks
\* exhausted): main.py 181, then the next loop_index.
NextLoop(th) ==
    [th EXCEPT !.pc = "loop_check", !.loop_index = th.loop_index + 1,
               !.blocks = <<>>, !.block_index = 0]

\* run_experiment_blocks without its try/except: the TypeError of range()
\* ends the thread and is_running stays as it was.
ThreadBeginUncaught(t) ==
    /\ threads[t].pc = "begin"
    /\ threads' = [threads EXCEPT ![t] =
                     IF config.num_loops_is_int
                       THEN [@ EXCEPT !.pc = "loop_check",
                                      !.num_loops = config.num_loops]
                       ELSE [@ EXCEPT !.pc = "done", !.exit = "raised",
                                      !.natural = FALSE, !.failed = TRUE]]
    /\ UNCHANGED <<controller_vars, start_req, stop_req, status_req>>
    /\ Observed

\* main.py 162-165: num_loops is read once; range() raises TypeError when
\* it is not an integer.
ThreadBegin(t) ==
    /\ threads[t].pc = "begin"
    /\ threads' = [threads EXCEPT ![t] =
                     IF config.num_loops_is_int
                       THEN [@ EXCEPT !.pc = "loop_check",
                                      !.num_loops = config.num_loops]
                       ELSE [@ EXCEPT !.pc = "except", !.natural = FALSE,
                                      !.failed = TRUE]]
    /\ UNCHANGED <<controller_vars, start_req, stop_req, status_req>>
    /\ Observed

\* run_experiment_blocks reading config.num_loops again at every iteration.
ThreadLoopCheckRereading(t) ==
    /\ threads[t].pc = "loop_check"
    /\ threads' = [threads EXCEPT ![t] =
                     IF @.loop_index >= config.num_loops
                       THEN [@ EXCEPT !.pc = "finish"]
                     ELSE IF ~is_running
                       THEN [@ EXCEPT !.pc = "finish", !.natural = FALSE]
                     ELSE [@ EXCEPT !.pc = "set_loop"]]
    /\ UNCHANGED <<controller_vars, start_req, stop_req, status_req>>
    /\ Observed

\* main.py 165-168
ThreadLoopCheck(t) ==
    /\ threads[t].pc = "loop_check"
    /\ threads' = [threads EXCEPT ![t] =
                     IF @.loop_index >= @.num_loops
                       THEN [@ EXCEPT !.pc = "finish"]
                     ELSE IF ~is_running
                       THEN [@ EXCEPT !.pc = "finish", !.natural = FALSE]
                     ELSE [@ EXCEPT !.pc = "set_loop"]]
    /\ UNCHANGED <<controller_vars, start_req, stop_req, status_req>>
    /\ Observed

\* main.py 169-171
ThreadSetLoop(t) ==
    /\ threads[t].pc = "set_loop"
    /\ current_loop' = threads[t].loop_index + 1
    /\ threads' = [threads EXCEPT ![t] =
                     [@ EXCEPT !.pc = "block_check",
                               !.blocks = get_blocks_for_loop(current_loop'),
                               !.block_index = 1]]
    /\ UNCHANGED <<is_running, current_block, audio_files, config,
                   session_dir, block_thread, eeg_recorder,
                   start_req, stop_req, status_req>>
    /\ Observed

\* main.py 172-175
ThreadBlockCheck(t) ==
    /\ threads[t].pc = "block_check"
    /\ threads' = [threads EXCEPT ![t] =
                     IF @.block_index > Len(@.blocks)
                       THEN NextLoop(@)
                     ELSE IF ~is_running
                       THEN [NextLoop(@) EXCEPT !.natural = FALSE]
                     ELSE [@ EXCEPT !.pc = "rb_check"]]
    /\ UNCHANGED <<controller_vars, start_req, stop_req, status_req>>
    /\ Observed

\* controller.py 153-155 (run_block, called at main.py 176)
RunBlockCheck(t) ==
    /\ threads[t].pc = "rb_check"
    /\ threads' = [threads EXCEPT ![t].pc =
                     IF is_running THEN "rb_set" ELSE "block_failed"]
    /\ UNCHANGED <<controller_vars, start_req, stop_req, status_req>>
    /\ Observed

\* controller.py 156-160: current_block is set, then time.sleep(duration),
\* which raises ValueError for a negative duration (caught at 170-172).
RunBlockSet(t) ==
    /\ threads[t].pc = "rb_set"
    /\ LET block == threads[t].blocks[threads[t].block_index] IN
         /\ current_block' = block.type
         /\ threads' = [threads EXCEPT ![t].pc =
                          IF block.duration >= 0 THEN "rb_file"
                                                 ELSE "block_failed"]
    /\ UNCHANGED <<is_running, current_loop, audio_files, config,
                   session_dir, block_thread, eeg_recorder,
                   start_req, stop_req, status_req>>
    /\ Observed

\* run_block recording the path before the file is created: a block whose
\* file cannot be written still leaves an entry.
RunBlockFileRecordedFirst(t) ==
    /\ threads[t].pc = "rb_file"
    /\ audio_files' = Append(audio_files,
                             [block |-> current_block, dir |-> session_dir])
    /\ threads' = [threads EXCEPT ![t].pc =
                     IF session_dir = 0 THEN "block_failed" ELSE "rb_clear"]
    /\ UNCHANGED <<is_running, current_block, current_loop, config,
                   session_dir, block_thread, eeg_recorder,
                   start_req, stop_req, status_req>>
    /\ Observed

\* controller.py 162-166: the file is named after self.current_block as it
\* is now and created inside session_dir (os.path.join raises TypeError
\* when session_dir is None, caught at 170-172); its path is appended.
RunBlockFile(t) ==
    /\ threads[t].pc = "rb_file"
    /\ IF session_dir = 0
         THEN /\ threads' = [threads EXCEPT ![t].pc = "block_failed"]
              /\ UNCHANGED audio_files
         ELSE /\ audio_files' = Append(audio_files,
                     [block |-> current_block, dir |-> session_dir])
              /\ threads' = [threads EXCEPT ![t].pc = "rb_clear"]
    /\ UNCHANGED <<is_running, current_block, current_loop, config,
                   session_dir, block_thread, eeg_recorder,
                   start_req, stop_req, status_req>>
    /\ Observed

\* run_block advancing the loop index itself at the end of an Intermission.
RunBlockClearAdvancing(t) ==
    /\ threads[t].pc = "rb_clear"
    /\ current_block' = None
    /\ current_loop' =
          IF threads[t].blocks[threads[t].block_index].type = "Intermission"
            THEN current_loop + 1 ELSE current_loop
    /\ threads' = [threads EXCEPT ![t] =
                     [@ EXCEPT !.pc = "block_check",
                               !.block_index = @ + 1,
                               !.completed = @ + 1]]
    /\ UNCHANGED <<is_running, audio_files, config,
                   session_dir, block_thread, eeg_recorder,
                   start_req, stop_req, status_req>>
    /\ Observed

\* controller.py 167-169, main.py 177: success, on to the next block
RunBlockClear(t) ==
    /\ threads[t].pc = "rb_clear"
    /\ current_block' = None
    /\ threads' = [threads EXCEPT ![t] =
                     [@ EXCEPT !.pc = "block_check",
                               !.block_index = @ + 1,
                               !.completed = @ + 1]]
    /\ UNCHANGED <<is_running, audio_files, current_loop, config,
                   session_dir, block_thread, eeg_recorder,
                   start_req, stop_req, status_req>>
    /\ Observed

\* run_experiment_blocks with a retry policy: a failed block is run again.
ThreadBlockRetried(t) ==
    /\ threads[t].pc = "block_failed"
    /\ threads' = [threads EXCEPT ![t] =
                     [@ EXCEPT !.pc = "rb_check", !.natural = FALSE,
                               !.failed = TRUE]]
    /\ UNCHANGED <<controller_vars, start_req, stop_req, status_req>>
    /\ Observed

\* main.py 177-181: run_block returned success False
ThreadBlockFailed(t) ==
    /\ threads[t].pc = "block_failed"
    /\ is_running' = FALSE
    /\ threads' = [threads EXCEPT ![t] =
                     [NextLoop(@) EXCEPT !.natural = FALSE,
                                         !.failed = TRUE]]
    /\ UNCHANGED <<current_block, audio_files, current_loop, config,
                   session_dir, block_thread, eeg_recorder,
                   start_req, stop_req, status_req>>
    /\ Observed

\* main.py 182-183: the procedure returns
ThreadFinish(t) ==
    /\ threads[t].pc = "finish"
    /\ is_running' = FALSE
    /\ threads' = [threads EXCEPT ![t] =
                     [@ EXCEPT !.pc = "done", !.exit = "normal"]]
    /\ UNCHANGED <<current_block, audio_files, current_loop, config,
                   session_dir, block_thread, eeg_recorder,
                   start_req, stop_req, status_req>>
    /\ Observed

\* main.py 184-186: the except clause of the procedure
ThreadExcept(t) ==
    /\ threads[t].pc = "except"
    /\ is_running' = FALSE
    /\ threads' = [threads EXCEPT ![t] =
                     [@ EXCEPT !.pc = "done", !.exit = "except"]]
    /\ UNCHANGED <<current_block, audio_files, current_loop, config,
                   session_dir, block_thread, eeg_recorder,
                   start_req, stop_req, status_req>>
    /\ Observed

\* ------------------------------------------------------------------ Next
\* A step of background thread t.
RunThread(t) ==
    \/ ThreadBegin(t)
    \/ ThreadLoopCheck(t)
    \/ ThreadSetLoop(t)
    \/ ThreadBlockCheck(t)
    \/ RunBlockCheck(t)
    \/ RunBlockSet(t)
    \/ RunBlockFile(t)
    \/ RunBlockClear(t)
    \/ ThreadBlockFailed(t)
    \/ ThreadFinish(t)
    \/ ThreadExcept(t)

\* The steps of the background threads that have been scheduled.
RunStep == \E t \in ScheduledThreads : RunThread(t)

\* The steps of the /api/start handler.
StartStep ==
    \/ \E w \in BOOLEAN, c \in Configs : StartRequest(w, c)
    \/ StartSetRunning
    \/ StartSetLoop
    \/ StartRecording
    \/ StartSpawn

\* The steps of the /api/stop handler.
StopStep ==
    \/ StopSetFlag
    \/ StopReadThread
    \/ StopJoin
    \/ StopRecording

\* The steps of the /api/status handler.
StatusStep ==
    \/ StatusReadRunning
    \/ StatusReadBlock
    \/ StatusReadLoop

\* The controller under start, stop, save-config and initialize requests.
Next ==
    \/ \E c \in Configs : SaveConfig(c)
    \/ Initialize
    \/ StartStep
    \/ StopStep
    \/ RunStep

Spec == Init /\ [][Next]_vars

\* The controller under start, initialize and status requests (no stop).
NextStatus ==
    \/ Initialize
    \/ StartStep
    \/ StatusStep
    \/ RunStep

SpecStatus == Init /\ [][NextStatus]_vars

\* The controller under start and initialize requests only (no stop request
\* is ever made), with every scheduled background thread running fairly:
\* a thread that can take a step eventually takes one, since its blocks
\* sleep for finite durations.
NextRun ==
    \/ Initialize
    \/ StartStep
    \/ RunStep

SpecRun ==
    /\ Init
    /\ [][NextRun]_vars
    /\ \A t \in ScheduledThreads : WF_vars(RunThread(t))

\* Runs one after another: a start request is served only when no
\* background thread is alive, so every thread started is the only one
\* running and all of them run; stop and initialize requests at any time.
NextSuccessive ==
    \/ Initialize
    \/ (AliveThreads = {} /\ StartStep)
    \/ StopStep
    \/ \E t \in ThreadIds : RunThread(t)

SpecSuccessive == Init /\ [][NextSuccessive]_vars

\* ------------------------------------------- the recorders, called directly
\* The two implementations of EEGRecorderBase, driven by a caller that makes
\* any sequence of initialize, start_recording, stop_recording and
\* insert_marker calls. A call that goes to the BrainVision application over
\* COM may raise at any of its statements: raise_at is the statement that
\* raises, 0 when none does.

\* BrainVisionRecorder.__init__: recorder is the COM object (None until
\* initialize), acquisition the state of the Recorder application.
BrainVisionRecorder ==
    [kind |-> "brainvision", recorder |-> None, acquisition |-> "off"]

Success == [success |-> TRUE, error |-> None]
Failure(error) == [success |-> FALSE, error |-> error]

\* SimulatedEEGRecorder.insert_marker without its test of is_recording.
SimInsertMarkerUnguarded(rec, description) ==
    [rec |-> [rec EXCEPT !.markers = Append(@, description)],
     result |-> Success]

\* SimulatedEEGRecorder.insert_marker
SimInsertMarker(rec, description) ==
    IF rec.is_recording
      THEN [rec |-> [rec EXCEPT !.markers = Append(@, description)],
            result |-> Success]
      ELSE [rec |-> rec, result |-> Failure("Not recording")]

\* BrainVisionRecorder.initialize: Dispatch (1), then .Version (2).
BVInitialize(rec, raise_at) ==
    IF raise_at = 1 THEN [rec |-> rec, result |-> Failure("COM")]
    ELSE [rec |-> [rec EXCEPT !.recorder = "VisionRecorder.Application"],
          result |-> IF raise_at = 2 THEN Failure("COM") ELSE Success]

\* BrainVisionRecorder.start_recording dispatching the application itself
\* when it holds none.
BVStartRecordingDispatching(rec, raise_at) ==
    IF raise_at = 1
      THEN [rec |-> rec, result |-> Failure("COM")]
    ELSE IF raise_at = 2
      THEN [rec |-> [rec EXCEPT !.recorder = "VisionRecorder.Application",
                                !.acquisition =
                                   IF @ = "off" THEN "viewing" ELSE @],
            result |-> Failure("COM")]
    ELSE [rec |-> [rec EXCEPT !.recorder = "VisionRecorder.Application",
                              !.acquisition = "recording"],
          result |-> Success]

\* BrainVisionRecorder.start_recording: ViewData (1), StartRecording (2);
\* with recorder None the attribute access raises.
BVStartRecording(rec, raise_at) ==
    IF rec.recorder = None
      THEN [rec |-> rec, result |-> Failure("AttributeError")]
    ELSE IF raise_at = 1
      THEN [rec |-> rec, result |-> Failure("COM")]
    ELSE IF raise_at = 2
      THEN [rec |-> [rec EXCEPT !.acquisition =
                        IF @ = "off" THEN "viewing" ELSE @],
            result |-> Failure("COM")]
    ELSE [rec |-> [rec EXCEPT !.acquisition = "recording"],
          result |-> Success]

\* BrainVisionRecorder.stop_recording: nothing to do with recorder None;
\* else StopRecording (1), StopViewing (2), Quit (3), recorder = None.
BVStopRecording(rec, raise_at) ==
    IF rec.recorder = None
      THEN [rec |-> rec, result |-> Success]
    ELSE IF raise_at = 1
      THEN [rec |-> rec, result |-> Failure("COM")]
    ELSE IF raise_at = 2
      THEN [rec |-> [rec EXCEPT !.acquisition =
                        IF @ = "recording" THEN "viewing" ELSE @],
            result |-> Failure("COM")]
    ELSE IF raise_at = 3
      THEN [rec |-> [rec EXCEPT !.acquisition = "off"],
            result |-> Failure("COM")]
    ELSE [rec |-> [rec EXCEPT !.acquisition = "off", !.recorder = None],
          result |-> Success]

\* BrainVisionRecorder.insert_marker: SetMarker (1).
BVInsertMarker(rec, raise_at) ==
    IF rec.recorder = None
      THEN [rec |-> rec, result |-> Failure("AttributeError")]
    ELSE [rec |-> rec,
          result |-> IF raise_at = 1 THEN Failure("COM") ELSE Success]

\* The statements of each BrainVisionRecorder method that may raise.
RaiseAt(rec, statements) ==
    IF rec.kind = "simulated" THEN {0} ELSE 0..statements

\* The state all the specifications start the controller in, but for the
\* recorder and the configuration.
InitBut(rec, c) ==
    /\ is_running = FALSE
    /\ current_block = None
    /\ current_loop = 0
    /\ audio_files = <<>>
    /\ config = c
    /\ session_dir = 0
    /\ block_thread = 0
    /\ eeg_recorder = rec
    /\ threads = [t \in ThreadIds |-> NewThread]
    /\ start_req = IdleStart
    /\ stop_req = IdleStop
    /\ status_req = IdleStatus
    /\ held = {}
    /\ calls = <<>>
    /\ InitProcessing

\* A direct call: the recorder becomes out.rec and the call is logged with
\* its result.
Called(op, out) ==
    /\ eeg_recorder' = out.rec
    /\ calls' = Append(calls, [op |-> op, result |-> out.result])
    /\ UNCHANGED <<is_running, current_block, current_loop, audio_files,
                   config, session_dir, block_thread, threads,
                   start_req, stop_req, status_req, held,
                   processing_vars>>

\* recorder.initialize()
CallInitialize ==
    /\ Len(calls) < MaxCalls
    /\ \E raise_at \in RaiseAt(eeg_recorder, 2) :
          Called("initialize",
                 IF eeg_recorder.kind = "simulated"
                   THEN [rec |-> eeg_recorder, result |-> Success]
                   ELSE BVInitialize(eeg_recorder, raise_at))

\* recorder.start_recording(filename)
CallStartRecording ==
    /\ Len(calls) < MaxCalls
    /\ \E raise_at \in RaiseAt(eeg_recorder, 2) :
          Called("start_recording",
                 IF eeg_recorder.kind = "simulated"
                   THEN [rec |-> SimStartRecording(eeg_recorder, 1),
                         result |-> Success]
                   ELSE BVStartRecording(eeg_recorder, raise_at))

\* recorder.stop_recording()
CallStopRecording ==
    /\ Len(calls) < MaxCalls
    /\ \E raise_at \in RaiseAt(eeg_recorder, 3) :
          Called("stop_recording",
                 IF eeg_recorder.kind = "simulated"
                   THEN [rec |-> SimStopRecording(eeg_recorder),
                         result |-> Success]
                   ELSE BVStopRecording(eeg_recorder, raise_at))

\* recorder.insert_marker(description)
CallInsertMarker ==
    /\ Len(calls) < MaxCalls
    /\ \E raise_at \in RaiseAt(eeg_recorder, 1) :
          Called("insert_marker",
                 IF eeg_recorder.kind = "simulated"
                   THEN SimInsertMarker(eeg_recorder, Len(calls) + 1)
                   ELSE BVInsertMarker(eeg_recorder, raise_at))

InitRecorder ==
    \E rec \in {SimulatedEEGRecorder, BrainVisionRecorder} :
        InitBut(rec, DefaultConfig)

NextRecorder ==
    \/ CallInitialize
    \/ CallStartRecording
    \/ CallStopRecording
    \/ CallInsertMarker

\* Either recorder under any sequence of at most MaxCalls calls.
SpecRecorder == InitRecorder /\ [][NextRecorder]_vars

\* ------------------------------------ the controller's start_recording
\* ExperimentController.start_recording(filename): os.path.join raises
\* TypeError when session_dir is None, before the recorder is called; else
\* the recorder's start_recording is called, its result is assigned to a
\* local that is never read, and {"success": True} is returned. called
\* tells whether the recorder was called and inner is then its result.
ControllerStartRecording(rec, dir, raise_at) ==
    IF dir = 0
      THEN [rec |-> rec, called |-> FALSE, inner |-> Failure("TypeError"),
            result |-> Failure("TypeError")]
      ELSE LET out == IF rec.kind = "simulated"
                        THEN [rec |-> SimStartRecording(rec, dir),
                              result |-> Success]
                        ELSE BVStartRecording(rec, raise_at)
           IN  [rec |-> out.rec, called |-> TRUE, inner |-> out.result,
                result |-> Success]

\* controller.create_session_directory()
CallCreateSessionDirectory ==
    /\ Len(calls) < MaxCalls
    /\ session_dir < MaxSessions
    /\ session_dir' = session_dir + 1
    /\ calls' = Append(calls, [op |-> "create_session_directory",
                               result |-> Success])
    /\ UNCHANGED <<is_running, current_block, current_loop, audio_files,
                   config, block_thread, eeg_recorder, threads,
                   start_req, stop_req, status_req, held,
                   processing_vars>>

\* controller.start_recording(filename): the recorder's call, when made, is
\* logged before the controller's own result.
CallControllerStartRecording ==
    /\ Len(calls) + 2 <= MaxCalls
    /\ \E raise_at \in RaiseAt(eeg_recorder, 2) :
          LET out == ControllerStartRecording(eeg_recorder, session_dir,
                                              raise_at)
              made == IF out.called
                        THEN <<[op |-> "start_recording",
                                result |-> out.inner]>>
                        ELSE <<>>
          IN  /\ eeg_recorder' = out.rec
              /\ calls' = calls \o made \o
                            <<[op |-> "controller.start_recording",
                               result |-> out.result]>>
    /\ UNCHANGED <<is_running, current_block, current_loop, audio_files,
                   config, session_dir, block_thread, threads,
                   start_req, stop_req, status_req, held,
                   processing_vars>>

NextController ==
    \/ CallCreateSessionDirectory
    \/ CallInitialize
    \/ CallControllerStartRecording
    \/ CallStopRecording

\* The controller's recording calls over either recorder, for any sequence
\* of at most MaxCalls calls.
SpecController == InitRecorder /\ [][NextController]_vars

\* ------------------------------------------------- /api/process-audio
\* The rest of the controller, which these steps leave alone.
ProcessingFrame ==
    UNCHANGED <<controller_vars, threads, start_req, stop_req, status_req,
                held, calls>>

\* main.py 232-236: the request arrives and tests the flag.
ProcessAudioCheck(r) ==
    /\ process_req[r] = "new"
    /\ process_req' = [process_req EXCEPT ![r] =
                         IF is_processing_audio THEN "rejected"
                                                ELSE "checked"]
    /\ UNCHANGED <<is_processing_audio, processing_thread>>
    /\ ProcessingFrame

\* main.py 239-246: the thread is created and started, success is returned.
ProcessAudioStart(r) ==
    /\ process_req[r] = "checked"
    /\ process_req' = [process_req EXCEPT ![r] = "accepted"]
    /\ processing_thread' = [processing_thread EXCEPT ![r] = "started"]
    /\ UNCHANGED is_processing_audio
    /\ ProcessingFrame

\* controller.py 243: process_audio_files sets the flag.
ProcessAudioFilesBegin(r) ==
    /\ processing_thread[r] = "started"
    /\ is_processing_audio' = TRUE
    /\ processing_thread' = [processing_thread EXCEPT ![r] = "running"]
    /\ UNCHANGED process_req
    /\ ProcessingFrame

\* controller.py 244-279: the files are processed, or an exception is
\* caught, and the finally clause clears the flag.
ProcessAudioFilesEnd(r) ==
    /\ processing_thread[r] = "running"
    /\ is_processing_audio' = FALSE
    /\ processing_thread' = [processing_thread EXCEPT ![r] = "done"]
    /\ UNCHANGED process_req
    /\ ProcessingFrame

NextProcessAudio ==
    \E r \in Requests :
        \/ ProcessAudioCheck(r)
        \/ ProcessAudioStart(r)
        \/ ProcessAudioFilesBegin(r)
        \/ ProcessAudioFilesEnd(r)

\* The controller under /api/process-audio requests served concurrently.
SpecProcessAudio == Init /\ [][NextProcessAudio]_vars

\* ------------------------------------- the configuration, called directly
\* Block durations that differ from block to block, and a Lag above the
\* 120 seconds validate allows.
DistinctDurations ==
    [b \in {BlockTypes[i] : i \in 1..Len(BlockTypes)} |->
        CHOOSE i \in 1..Len(BlockTypes) : BlockTypes[i] = b]
LongLagDurations == [GoodDurations EXCEPT !["Lag"] = 121]

\* ExperimentConfig objects over every field validate reads: any
\* experiment_type, num_loops on both sides of each bound (or a string),
\* valid and invalid durations, audio settings and directories.
AllConfigs ==
    [experiment_type : {"full", "partial", "simple", "other"},
     num_loops : {0, 1, 20, 21, 25}, num_loops_is_int : {TRUE},
     require_brainvision : {TRUE},
     block_durations : {GoodDurations, BadB1Durations, DistinctDurations,
                        LongLagDurations},
     sample_rate : {44100, 8000}, format : {"16bit", "8bit"},
     directories : {DefaultDirectories,
                    [DefaultDirectories EXCEPT !["temp"] = ""]}]
    \cup
    [experiment_type : {"full", "other"},
     num_loops : {25}, num_loops_is_int : {FALSE},
     require_brainvision : {TRUE}, block_durations : {GoodDurations},
     sample_rate : {44100}, format : {"16bit"},
     directories : {DefaultDirectories}]

\* A direct call on the controller's configuration, logged with its result.
ConfigCalled(op, arg, result) ==
    /\ calls' = Append(calls, [op |-> op, arg |-> arg, result |-> result])
    /\ UNCHANGED <<controller_vars, threads, start_req, stop_req,
                   status_req, held,
                   processing_vars>>

\* controller.config.validate()
CallValidate ==
    /\ Len(calls) < MaxCalls
    /\ ConfigCalled("validate", None, validate(config))

\* controller.get_blocks_for_loop(loop_number)
CallGetBlocksForLoop(loop_number) ==
    /\ Len(calls) < MaxCalls
    /\ ConfigCalled("get_blocks_for_loop", loop_number,
                    get_blocks_for_loop(loop_number))

InitConfig == \E c \in AllConfigs : InitBut(SimulatedEEGRecorder, c)

NextConfig ==
    \/ CallValidate
    \/ \E loop_number \in 1..MaxLoops : CallGetBlocksForLoop(loop_number)

\* Any configuration under at most MaxCalls calls of validate and
\* get_blocks_for_loop.
SpecConfig == InitConfig /\ [][NextConfig]_vars

\* ---------------------------------------------------------------- claims
\* A thread takes its last step: run_experiment_blocks returns.
Exits(t) == threads[t].pc # "done" /\ threads'[t].pc = "done"

\* C1: whenever run_experiment_blocks exits, by the end of the loops, by a
\* break on the cleared flag, after a failed block or through its except
\* clause, the step that ends it leaves is_running false, and the thread
\* ends by returning from the procedure, not by an escaped exception.
ExitResetsRunning ==
    [][\A t \in ThreadIds :
         Exits(t) => /\ ~is_running'
                     /\ threads'[t].exit \in {"normal", "except"}]_vars

\* C1 witness: a thread has exited through the except clause (num_loops was
\* not an integer) and is_running is false.
ExitedThroughExcept ==
    \E t \in ThreadIds :
        /\ threads[t].pc = "done"
        /\ threads[t].exit = "except"
        /\ ~is_running

\* C2: at the moment stop returns, is_running is false and every background
\* thread that was alive when stop was called has exited.
StopReturnsStopped ==
    [][(stop_req.pc = "stop_recording" /\ stop_req'.pc = "idle")
         => /\ ~is_running'
            /\ \A t \in stop_req.alive_at_call : threads'[t].pc = "done"]_vars

\* C3: a start request that arrives while a run is in progress is rejected:
\* no step of its handler changes is_running, current_loop, current_block,
\* audio_files, block_thread or the set of threads, and every step it takes
\* is the return of the AlreadyRunning failure.
SecondStartRejected ==
    [][(start_req.during_run /\ start_req.pc # "idle" /\ start_req' # start_req)
         => /\ start_req'.pc = "idle"
            /\ start_req'.returned = "already_running"
            /\ UNCHANGED <<is_running, current_loop, current_block,
                           audio_files, block_thread, threads>>]_vars

\* C4: at most one background block-execution thread is alive.
AtMostOneThread == Cardinality(AliveThreads) <= 1

\* C5: is_running = false implies current_block is None.
NotRunningNoBlock == ~is_running => current_block = None

\* C6: while a run's background thread is alive, no step decreases
\* current_loop.
LoopNeverDecreases ==
    [][(\E t \in ThreadIds : Alive(t) /\ threads'[t].pc # "done")
         => current_loop' >= current_loop]_vars

\* C7: when a run completes naturally (no block failed, no cancellation was
\* seen, no stop was issued during it), is_running is false and current_loop
\* equals the num_loops the run was started with.
NaturalCompletion ==
    [][\A t \in ThreadIds :
         (Exits(t) /\ threads'[t].natural /\ threads'[t].exit = "normal")
           => /\ ~is_running'
              /\ current_loop' = threads[t].num_loops]_vars

\* C8: a status request that arrives after a successful start has returned,
\* with a valid configuration and no other request in between, reports
\* isRunning true and currentLoop 0 or 1 (stated for the first start of the
\* controller, so that no earlier run interferes).
StatusAfterStart ==
    [][(/\ status_req.pc = "read_loop"
        /\ status_req'.pc = "idle"
        /\ status_req.after_start
        /\ NextThread = 2)
         => /\ status_req.isRunning
            /\ current_loop \in {0, 1}]_vars

\* C9: only the audio blocks A1 and A2 append to audio_files, so a run that
\* completes naturally on a controller whose list was empty leaves exactly
\* two entries per loop.
OnlyAudioBlocksAppend ==
    /\ \A i \in 1..Len(audio_files) : audio_files[i].block \in {"A1", "A2"}
    /\ (/\ threads[1].pc = "done"
        /\ threads[1].natural
        /\ threads[1].exit = "normal")
         => Len(audio_files) = 2 * threads[1].num_loops

\* C10: when the device is required and start_recording fails, start
\* returns with is_running false and without a background thread.
FailedStartLeavesIdle ==
    start_req.returned = "record_failed"
      => /\ ~is_running
         /\ AliveThreads = {}

\* C11: start validates the active configuration before running: when
\* validate rejects the active configuration, the start handler's step
\* after the configuration is settled is the return of the failure, and it
\* leaves is_running and the threads as they were (no block is executed).
ValidatedBeforeRunning ==
    [][(/\ start_req.pc = "set_running"
        /\ start_req' # start_req
        /\ ~validate(config).ok)
         => /\ start_req'.pc = "idle"
            /\ start_req'.returned = "config_invalid"
            /\ UNCHANGED <<is_running, threads>>]_vars

\* C12: once the background procedure has exited, after a start that began
\* a recording and with no stop request made, the recorder is no longer
\* recording (stated for the first start of the controller, with no start
\* or stop request since it returned success).
RunExitReleasesDevice ==
    [][\A t \in ThreadIds :
         (/\ Exits(t)
          /\ NextThread = 2
          /\ start_req.pc = "idle"
          /\ start_req.returned = "ok")
           => ~eeg_recorder'.is_recording]_vars

\* The last call made and the calls before it.
LastCall == calls[Len(calls)]
CallMade(op) ==
    /\ Len(calls') = Len(calls) + 1
    /\ calls'[Len(calls')].op = op

\* Some start_recording call is not followed by a later stop_recording.
UnmatchedStart(log) ==
    \E i \in 1..Len(log) :
        /\ log[i].op = "start_recording"
        /\ \A j \in (i + 1)..Len(log) : log[j].op # "stop_recording"

\* C13: on the simulated recorder, insert_marker returns the 'Not recording'
\* failure exactly when no start_recording call is unmatched by a later
\* stop_recording; then the markers are unchanged, and otherwise it succeeds
\* and appends exactly one marker.
MarkerIffRecording ==
    [][(eeg_recorder.kind = "simulated" /\ CallMade("insert_marker"))
         => LET result == calls'[Len(calls')].result IN
            /\ (result = Failure("Not recording")) <=> ~UnmatchedStart(calls)
            /\ IF UnmatchedStart(calls)
                 THEN /\ result = Success
                      /\ Len(eeg_recorder'.markers)
                           = Len(eeg_recorder.markers) + 1
                      /\ SubSeq(eeg_recorder'.markers, 1,
                                Len(eeg_recorder.markers))
                           = eeg_recorder.markers
                 ELSE eeg_recorder'.markers = eeg_recorder.markers]_vars

\* C13 witness: start_recording, insert_marker (succeeds, one marker),
\* stop_recording, insert_marker (fails with 'Not recording').
MarkerAcceptedThenRefused ==
    /\ eeg_recorder.kind = "simulated"
    /\ Len(calls) = 4
    /\ calls[1].op = "start_recording"
    /\ calls[2] = [op |-> "insert_marker", result |-> Success]
    /\ calls[3].op = "stop_recording"
    /\ calls[4] = [op |-> "insert_marker",
                   result |-> Failure("Not recording")]
    /\ Len(eeg_recorder.markers) = 1

\* Whether the recorder is recording.
Recording(rec) ==
    IF rec.kind = "simulated" THEN rec.is_recording
                              ELSE rec.acquisition = "recording"

\* C14: for both recorders, a stop_recording call made when not recording,
\* or right after another stop_recording call, returns success, and the
\* second of two calls in a row leaves the recorder as the first left it.
StopRecordingIdempotent ==
    [][(/\ CallMade("stop_recording")
        /\ \/ ~Recording(eeg_recorder)
           \/ (calls # <<>> /\ LastCall.op = "stop_recording"))
         => /\ calls'[Len(calls')].result = Success
            /\ (calls # <<>> /\ LastCall.op = "stop_recording")
                 => eeg_recorder' = eeg_recorder]_vars

\* C15: a stop request that arrives at an idle controller (never started,
\* or the previous run finished) does not block at join, leaves is_running
\* false and current_block, current_loop and audio_files unchanged in each
\* of its steps, and returns success.
StopWhileIdle ==
    /\ []((stop_req.pc = "join" /\ stop_req.idle_at_call /\ IdleController)
            => IF stop_req.joining = 0
                 THEN TRUE
                 ELSE threads[stop_req.joining].pc = "done")
    /\ [][(/\ stop_req' # stop_req
           /\ IF stop_req.pc = "idle" THEN stop_req'.idle_at_call
                                      ELSE stop_req.idle_at_call)
            => /\ is_running' = is_running
               /\ stop_req.pc = "idle" => ~is_running'
               /\ UNCHANGED <<current_block, current_loop, audio_files>>
               /\ stop_req'.pc = "idle" => stop_req'.returned.success]_vars

\* C15 witness: a stop request that arrived after the run had finished has
\* cleared the flag and passed the join of the finished thread, with the
\* loop counter and the files of that run still in place.
StopAfterFinishedRun ==
    /\ stop_req.pc = "stop_recording"
    /\ stop_req.idle_at_call
    /\ stop_req.joining = 1
    /\ threads[1].pc = "done"
    /\ ~is_running
    /\ current_loop = threads[1].num_loops
    /\ current_loop > 0
    /\ audio_files # <<>>

\* C16: the triple a status response reports (isRunning and currentBlock as
\* read earlier, currentLoop as read when the response is built) is one the
\* three fields held together at some instant between the arrival of the
\* request and its response.
ConsistentSnapshot ==
    [][(status_req.pc = "read_loop" /\ status_req'.pc = "idle")
         => <<status_req.isRunning, status_req.currentBlock, current_loop>>
              \in held]_vars

LoopsOutOfBounds ==
    /\ config.num_loops_is_int
    /\ config.num_loops \notin 1..20

\* C18 as claimed: every configuration whose num_loops lies outside 1..20
\* fails validate with the reason that mentions the loop bound, whatever
\* its other fields.
LoopBoundAlwaysReported ==
    \A i \in 1..Len(calls) :
        (calls[i].op = "validate" /\ LoopsOutOfBounds)
          => /\ ~calls[i].result.ok
             /\ calls[i].result.reason = LoopBoundReason

\* C18 amended: every configuration whose num_loops lies outside 1..20 fails
\* validate, whatever its other fields; the reason mentions the loop bound
\* when experiment_type is one of full, partial, simple, and is 'Invalid
\* experiment type' otherwise.
LoopBoundReported ==
    \A i \in 1..Len(calls) :
        (calls[i].op = "validate" /\ LoopsOutOfBounds)
          => /\ ~calls[i].result.ok
             /\ calls[i].result.reason =
                  IF config.experiment_type \in {"full", "partial", "simple"}
                    THEN LoopBoundReason
                    ELSE "Invalid experiment type"

\* C18 witness: validate has rejected num_loops = 21 with the loop bound's
\* reason, in a configuration whose B1 duration is invalid as well.
LoopBoundBeforeDurations ==
    /\ config.num_loops = 21
    /\ config.num_loops_is_int
    /\ config.block_durations = BadB1Durations
    /\ calls # <<>>
    /\ calls[1] = [op |-> "validate", arg |-> None,
                   result |-> Failed(LoopBoundReason)]

\* C19: when an EEG block (B1 or B2) completes while the simulated recorder
\* is recording, the recorder's last two markers are that block's start
\* marker and its end marker, in this order (stated for the first start of
\* the controller, with no start or stop request since it returned).
EEGBlockMarkers ==
    [][\A t \in ThreadIds :
         LET block == threads[t].blocks[threads[t].block_index]
             markers == eeg_recorder'.markers
         IN (/\ threads[t].pc = "rb_clear"
             /\ threads'[t].pc # "rb_clear"
             /\ block.type \in {"B1", "B2"}
             /\ eeg_recorder.is_recording
             /\ NextThread = 2
             /\ start_req.pc = "idle"
             /\ start_req.returned = "ok")
              => /\ Len(markers) >= 2
                 /\ markers[Len(markers) - 1] = <<"start", block.type>>
                 /\ markers[Len(markers)] = <<"end", block.type>>]_vars

\* C20: a status request that arrives after a run has ended in failure (a
\* block returned failure or the procedure caught an exception) reports an
\* error: the error field of its response is not None.
StatusReportsFailure ==
    [][(/\ status_req.pc = "read_loop"
        /\ status_req'.pc = "idle"
        /\ status_req.after_failure)
         => StatusResponse.error # None]_vars

\* C21: with no stop request and the background thread scheduled fairly,
\* every run that start has launched terminates: its thread exits with
\* is_running false, and is_running then stays false until a start handler
\* sets it again.
RunTerminates ==
    /\ \A t \in ScheduledThreads :
          (threads[t].pc = "begin")
            ~> (threads[t].pc = "done" /\ ~is_running)
    /\ [][(~is_running /\ is_running') => start_req.pc = "set_running"]_vars

\* C21 witness: the run of two loops has completed with no stop request:
\* is_running is false, current_loop is 2 and every block left its file.
RunOfTwoLoopsCompleted ==
    /\ threads[1].pc = "done"
    /\ threads[1].exit = "normal"
    /\ threads[1].natural
    /\ threads[1].num_loops = 2
    /\ ~is_running
    /\ current_loop = 2
    /\ Len(audio_files) = 2 * Len(BlockTypes)

\* Thread t begins a loop, begins a block (run_block passes its test of the
\* flag), or is inside a block it has begun.
BeginsLoop(t) == threads[t].pc = "loop_check" /\ threads'[t].pc = "set_loop"
BeginsBlock(t) == threads[t].pc = "rb_check" /\ threads'[t].pc = "rb_set"
InFlight(t) == threads[t].pc \in {"rb_set", "rb_file", "rb_clear"}

\* C22: once a stop request has cleared the running flag, a background
\* thread that was alive at that point begins no further loop and no further
\* block; audio_files is appended to only by a thread whose block is in
\* flight, one entry per block.
CancelledAtBoundaries ==
    [][/\ \A t \in ThreadIds :
            (stop_req.pc # "idle" /\ t \in stop_req.alive_at_call)
              => ~(BeginsLoop(t) \/ BeginsBlock(t))
       /\ audio_files' # audio_files
            => \E t \in ThreadIds :
                 /\ InFlight(t)
                 /\ threads'[t].pc = "rb_clear"
                 /\ Len(audio_files') = Len(audio_files) + 1]_vars

\* C23: once run_block has returned success false to a background thread,
\* that thread executes no further block: neither a later block of the same
\* loop, nor a block of a later loop, nor the failed block again.
FirstFailureAborts ==
    [][\A t \in ThreadIds :
          (threads[t].failed \/ threads[t].pc = "block_failed")
            => ~BeginsBlock(t)]_vars

\* C24: while a run is in progress (the flag is set and a background thread
\* is alive), a step of the stop handler or of the initialize handler leaves
\* is_running, current_block, current_loop, audio_files and session_dir
\* unchanged.
ForegroundLeavesRunState ==
    [][(is_running /\ AliveThreads # {} /\ (StopStep \/ Initialize))
         => UNCHANGED <<is_running, current_block, current_loop,
                        audio_files, session_dir>>]_vars

\* C25: whenever the start handler calls the recorder's start_recording, no
\* recording started earlier is still active on the recorder.
StartStopPaired ==
    [][(/\ start_req.pc = "record"
        /\ start_req'.pc = "spawn"
        /\ config.require_brainvision
        /\ StartRecordingSucceeds)
         => ~eeg_recorder.is_recording]_vars

\* C26: the active configuration is replaced only by a configuration that
\* validate accepts.
OnlyValidatedConfigInstalled ==
    [][config' # config => validate(config').ok]_vars

\* C27: on the BrainVision recorder, a start_recording or insert_marker call
\* made while the recorder holds no application (recorder is None) returns a
\* failure result and leaves recorder None and the application untouched.
NoSessionCallsFail ==
    [][(/\ eeg_recorder.kind = "brainvision"
        /\ eeg_recorder.recorder = None
        /\ (CallMade("start_recording") \/ CallMade("insert_marker")))
         => /\ ~calls'[Len(calls')].result.success
            /\ eeg_recorder' = eeg_recorder]_vars

\* C27 witness: initialize succeeded, stop_recording released the
\* application, and start_recording and insert_marker were then called
\* without one.
CalledAfterRelease ==
    /\ eeg_recorder.kind = "brainvision"
    /\ eeg_recorder.recorder = None
    /\ Len(calls) = 4
    /\ calls[1] = [op |-> "initialize", result |-> Success]
    /\ calls[2] = [op |-> "stop_recording", result |-> Success]
    /\ calls[3].op = "start_recording" /\ ~calls[3].result.success
    /\ calls[4].op = "insert_marker" /\ ~calls[4].result.success

\* C28: on the BrainVision recorder, after any stop_recording call has
\* returned, with success or with failure, recorder is None.
StopReleasesSession ==
    [][(eeg_recorder.kind = "brainvision" /\ CallMade("stop_recording"))
         => eeg_recorder'.recorder = None]_vars

\* Thread t takes a step of run_experiment_blocks.
ThreadStepped(t) ==
    threads[t].pc # "unborn" /\ threads'[t].pc # threads[t].pc

\* C29: a background thread writes current_loop only at the head of a loop
\* iteration, to loop_index + 1; none of its other steps, the steps of
\* run_block for an Intermission included, changes current_loop; and its
\* loop_index rises by exactly 1, only on passing to the next iteration.
LoopAdvancesInOuterLoop ==
    [][\A t \in ThreadIds :
          ThreadStepped(t)
            => /\ current_loop' = IF threads[t].pc = "set_loop"
                                    THEN threads[t].loop_index + 1
                                    ELSE current_loop
               /\ \/ threads'[t].loop_index = threads[t].loop_index
                  \/ /\ threads'[t].loop_index = threads[t].loop_index + 1
                     /\ threads'[t].pc = "loop_check"]_vars

\* C29 witness: all six blocks of loop 1, the Intermission last, have run
\* with current_loop still 1, and the thread is about to set it to 2.
SecondLoopAboutToStart ==
    /\ threads[1].pc = "set_loop"
    /\ threads[1].loop_index = 1
    /\ current_loop = 1
    /\ Len(audio_files) = Len(BlockTypes)
    /\ audio_files[Len(audio_files)].block = "Intermission"

\* C30: a call of the controller's start_recording returns success exactly
\* when it called the recorder's start_recording and that call returned
\* success.
RecorderResultPassedOn ==
    [][(/\ Len(calls') > Len(calls)
        /\ calls'[Len(calls')].op = "controller.start_recording")
         => (calls'[Len(calls')].result.success
               <=> /\ Len(calls') = Len(calls) + 2
                   /\ calls'[Len(calls') - 1].result.success)]_vars

\* The number of blocks the threads of S have completed.
RECURSIVE CompletedBy(_)
CompletedBy(S) ==
    IF S = {} THEN 0
    ELSE LET t == CHOOSE x \in S : TRUE
         IN  threads[t].completed + CompletedBy(S \ {t})

\* The threads whose current block has written its file and not yet
\* returned.
Returning == {t \in ThreadIds : threads[t].pc = "rb_clear"}

\* C31: audio_files holds one entry for every block that run_block has
\* completed, and one for each block about to return success, and nothing
\* else; each entry is appended at the end, the earlier ones staying in
\* place; a block that fails or is skipped appends nothing.
OneEntryPerCompletedBlock ==
    /\ [](Len(audio_files) = CompletedBy(ThreadIds) + Cardinality(Returning))
    /\ [][/\ audio_files' # audio_files
              => /\ Len(audio_files') = Len(audio_files) + 1
                 /\ SubSeq(audio_files', 1, Len(audio_files)) = audio_files
          /\ \A t \in ThreadIds :
                threads'[t].pc = "block_failed" => audio_files' = audio_files
         ]_vars

\* C31 witness: a run completed one block, had its second block refused
\* because the flag had been cleared, and ended with one entry.
OneBlockThenRefused ==
    /\ threads[1].pc = "done"
    /\ threads[1].failed
    /\ threads[1].completed = 1
    /\ Len(audio_files) = 1
    /\ session_dir # 0

\* C32: no step removes, replaces or reorders an entry of audio_files: the
\* list before a step is a prefix of the list after it.
AudioFilesAppendOnly ==
    [][/\ Len(audio_files') >= Len(audio_files)
       /\ SubSeq(audio_files', 1, Len(audio_files)) = audio_files]_vars

\* C32 witness: a second run has been started after the first and has
\* ended, each completed some blocks, and the entries of both are there.
TwoRunsOfEntries ==
    /\ threads[1].pc = "done" /\ threads[1].completed > 0
    /\ threads[2].pc = "done" /\ threads[2].completed > 0
    /\ Len(audio_files) = threads[1].completed + threads[2].completed

\* C33: a background thread takes its number of loops from the
\* configuration active at its first step and keeps it whatever save_config
\* installs afterwards: it begins a loop only below that number, and with
\* the flag still set it leaves the outer loop only on reaching it.
LoopCountFixedAtBegin ==
    [][\A t \in ThreadIds :
          /\ (threads[t].pc = "begin" /\ threads'[t].pc = "loop_check")
                => threads'[t].num_loops = config.num_loops
          /\ (Alive(t) /\ threads[t].pc # "begin")
                => threads'[t].num_loops = threads[t].num_loops
          /\ BeginsLoop(t) => threads[t].loop_index < threads[t].num_loops
          /\ (/\ threads[t].pc = "loop_check"
              /\ threads'[t].pc = "finish"
              /\ is_running)
                => threads[t].loop_index = threads[t].num_loops]_vars

\* C33 witness: the run began with num_loops 2, a configuration with
\* num_loops 1 was installed during its first loop, and it is beginning its
\* second loop.
ConfigReplacedInMidRun ==
    /\ threads[1].pc = "set_loop"
    /\ threads[1].loop_index = 1
    /\ threads[1].num_loops = 2
    /\ config.num_loops = 1
    /\ config.num_loops_is_int
    /\ threads[1].completed = Len(BlockTypes)

\* C34: on the BrainVision recorder, after an initialize call that returned
\* failure, recorder is None.
FailedInitializeHoldsNothing ==
    [][(/\ eeg_recorder.kind = "brainvision"
        /\ CallMade("initialize")
        /\ ~calls'[Len(calls')].result.success)
         => eeg_recorder'.recorder = None]_vars

\* The processing threads that have been started and have not finished.
Processing ==
    {r \in Requests : processing_thread[r] \in {"started", "running"}}

\* C35: at most one processing thread is started and unfinished at any
\* time, and a request that arrives while one is, is rejected.
OneProcessingAtATime ==
    /\ [](Cardinality(Processing) <= 1)
    /\ [][\A r \in Requests :
            (Processing # {} /\ process_req[r] = "new"
                             /\ process_req'[r] # "new")
              => process_req'[r] = "rejected"]_vars

====
